---- MODULE Spec2Model ----
(***************************************************************************)
(* A model of the container_of crate (src/src/lib.rs).                     *)
(*                                                                         *)
(* container_of!(ptr, Type, field) expands to                              *)
(*     ptr.cast::<u8>().sub(offset_of!(Type, field)).cast::<Type>()        *)
(* The model follows one call site through its build (the expansion is     *)
(* type-checked) and, when the build accepts it, through a run in the      *)
(* shape of the crate's tests: an instance `wrap` of Wrapper<T> is         *)
(* constructed, a pointer is taken, and the macro is applied to it.        *)
(* Pointers are records of an address, a pointee type, a const/mut         *)
(* qualification and a provenance bit (derived from `wrap` or not).        *)
(* A raw-pointer `sub` that leaves the allocation the pointer was derived  *)
(* from is undefined behaviour: its outcome is any address, and `ub` is    *)
(* raised.                                                                 *)
(***************************************************************************)
EXTENDS Integers, Sequences, FiniteSets

VARIABLES
    rustOrder,  \* the field order this build gives a struct with no layout attribute
    pc,         \* "build", "rejected", "run", "done"
    site,       \* the call site: [type, field, unsafe], or NoSite
    wrap,       \* the instance of the tests: [base, type, live], or NoInstance
    ptr,        \* the pointer handed to the macro, or NoPtr
    result,     \* the pointer the macro returned, or NoPtr
    ub,         \* TRUE once the run has executed undefined behaviour
    mem,        \* memory: address -> what occupies the byte
    accessed    \* the memory accesses made so far: [op, addr]

vars == <<rustOrder, pc, site, wrap, ptr, result, ub, mem, accessed>>

----------------------------------------------------------------------------
(* Bounds *)

\* width of an address in bits (usize in the model)
AddrBits == 4

\* the highest address the run places `wrap` at
MaxBase == 4

AddrMod == 2 ^ AddrBits
AddrSpace == 0 .. (AddrMod - 1)

----------------------------------------------------------------------------
(* Types and layout *)

\* the type parameter T of Wrapper<T> the tests use
Params == {"u8", "i32"}

\* #[repr(C)], #[repr(packed)], or no layout attribute at all
Reprs == {"C", "packed", "Rust"}

Prim(name) == [tag |-> name, repr |-> "-", param |-> "-"]

Wrapper(repr, T) == [tag |-> "Wrapper", repr |-> repr, param |-> T]

StructTypes == {Wrapper(r, T) : r \in Reprs, T \in Params}

\* the fields of Wrapper, in declaration order
FieldNames == <<"foo", "bar", "inner">>

Fields == {FieldNames[i] : i \in 1 .. Len(FieldNames)}

\* a field identifier that Wrapper does not declare
MissingField == "baz"

FieldType(A, f) ==
    CASE f = "foo" -> Prim("i32")
      [] f = "bar" -> Prim("u8")
      [] f = "inner" -> Prim(A.param)

PrimSize(t) == IF t.tag = "u8" THEN 1 ELSE 4

PrimAlign(t) == IF t.tag = "u8" THEN 1 ELSE 4

AlignUp(n, a) == ((n + a - 1) \div a) * a

Perms == {p \in [1 .. 3 -> Fields] : \A i, j \in 1 .. 3 : p[i] = p[j] => i = j}

\* the order in which the build places the fields of A
PlacementOrder(A) == IF A.repr = "Rust" THEN rustOrder ELSE FieldNames

FieldAlign(A, f) == IF A.repr = "packed" THEN 1 ELSE PrimAlign(FieldType(A, f))

RECURSIVE OffsetAt(_, _)
\* the offset of the i-th placed field: the end of the one placed before it,
\* rounded up to the field's own alignment
OffsetAt(A, i) ==
    IF i = 1 THEN 0
    ELSE LET prev == PlacementOrder(A)[i - 1]
         IN  AlignUp(OffsetAt(A, i - 1) + PrimSize(FieldType(A, prev)),
                     FieldAlign(A, PlacementOrder(A)[i]))

PlaceOf(A, f) == CHOOSE i \in 1 .. 3 : PlacementOrder(A)[i] = f

RECURSIVE SummedSizes(_, _)
SummedSizes(A, i) ==
    IF i = 1 THEN 0
    ELSE SummedSizes(A, i - 1) + PrimSize(FieldType(A, PlacementOrder(A)[i - 1]))

\* a layout that only sums the sizes of the fields placed before f
FieldOffsetUnpadded(A, f) == SummedSizes(A, PlaceOf(A, f))

\* a layout that yields where f ends instead of where it starts
FieldOffsetOfEnd(A, f) == OffsetAt(A, PlaceOf(A, f)) + PrimSize(FieldType(A, f))

\* the byte offset of field f in the layout of A
FieldOffset(A, f) == OffsetAt(A, PlaceOf(A, f))

StructAlign(A) == IF \E f \in Fields : FieldAlign(A, f) = 4 THEN 4 ELSE 1

StructSize(A) ==
    AlignUp(OffsetAt(A, 3) + PrimSize(FieldType(A, PlacementOrder(A)[3])),
            StructAlign(A))

SizeOf(t) == IF t.tag = "Wrapper" THEN StructSize(t) ELSE PrimSize(t)

\* memoffset's offset_of!(A, f): the offset of f in A's layout, from the type alone
offset_of(A, f) == FieldOffset(A, f)

----------------------------------------------------------------------------
(* Pointers *)

Quals == {"const", "mut"}

NoPtr == [addr |-> 0, ty |-> Prim("-"), qual |-> "-", prov |-> FALSE, of |-> "-"]

NoInstance == [base |-> 0, type |-> Prim("-"), live |-> FALSE]

NoSite == [type |-> Prim("-"), field |-> "-", unsafe |-> FALSE]

\* a cast that always hands back a *const pointer
cast_to_const(p, t) == [p EXCEPT !.ty = t, !.qual = "const"]

\* <*const T>::cast::<U>() and <*mut T>::cast::<U>(): the pointee type changes,
\* the address and the qualification stay
cast(p, t) == [p EXCEPT !.ty = t]

\* the n bytes below p, and p itself, lie inside the live allocation p was
\* derived from (one past its end included)
InBounds(p, n) ==
    /\ p.prov
    /\ wrap.live
    /\ wrap.base <= p.addr - n
    /\ p.addr <= wrap.base + StructSize(wrap.type)

\* pointer subtraction that wraps around the address space and is always defined
wrapping_sub(p, count) ==
    {[ptr |-> [p EXCEPT !.addr = (p.addr - count * SizeOf(p.ty)) % AddrMod],
      ub |-> FALSE]}

\* <*const T>::sub(count) and <*mut T>::sub(count): count elements of the pointee
\* type below p. Defined for a zero offset and inside the allocation p was derived
\* from; undefined behaviour otherwise, with any address as the outcome.
sub(p, count) ==
    LET n == count * SizeOf(p.ty)
    IN  IF n = 0 \/ InBounds(p, n)
        THEN {[ptr |-> [p EXCEPT !.addr = p.addr - n], ub |-> FALSE]}
        ELSE {[ptr |-> [p EXCEPT !.addr = a], ub |-> TRUE] : a \in AddrSpace}

\* an expansion that adds the offset instead of subtracting it
container_of_added(p, A, f) ==
    {[ptr |-> cast([p EXCEPT !.addr = (p.addr + offset_of(A, f)) % AddrMod], A),
      ub |-> FALSE]}

\* the expansion without its first cast: the offset counts pointees, not bytes
container_of_scaled(p, A, f) ==
    {[ptr |-> cast(o.ptr, A), ub |-> o.ub] : o \in sub(p, offset_of(A, f))}

\* the expansion of container_of!($ptr, $type, $field): the outcomes of
\* $ptr.cast::<u8>().sub(offset_of!($type, $field)).cast::<$type>()
container_of(p, A, f) ==
    {[ptr |-> cast(o.ptr, A), ub |-> o.ub] :
        o \in sub(cast(p, Prim("u8")), offset_of(A, f))}

\* an expansion that looks through the field pointer
container_of_derefs(p, A, f) == {[op |-> "read", addr |-> p.addr]}

\* the memory accesses of the expansion: cast, sub and cast touch no memory
container_of_accesses(p, A, f) == {}

----------------------------------------------------------------------------
(* The build of a call site *)

\* offset_of!($type, $field) names a field that $type declares
FieldResolves(A, f) == f \in Fields

\* the unsafe functions the expansion calls: `sub` is one, `cast` is not
UnsafeCalls == {"sub"}

\* a build that takes any field identifier
CompilesAnyField(s) == s.unsafe

\* a build that lets the expansion stand outside an unsafe block
CompilesOutsideUnsafe(s) == FieldResolves(s.type, s.field)

\* a build that turns away a type with no stable layout
CompilesStableOnly(s) ==
    /\ FieldResolves(s.type, s.field)
    /\ s.unsafe
    /\ s.type.repr \in {"C", "packed"}

\* whether the build accepts the call site
Compiles(s) ==
    /\ FieldResolves(s.type, s.field)
    /\ (UnsafeCalls # {} => s.unsafe)

----------------------------------------------------------------------------
(* The run *)

\* the addresses an instance of A can be placed at
Bases(A) ==
    {b \in AddrSpace : /\ b > 0
                       /\ b <= MaxBase
                       /\ b % StructAlign(A) = 0
                       /\ b + StructSize(A) <= AddrMod}

\* what occupies byte a of an instance of A placed at b
ByteOf(A, b, a) ==
    IF \E f \in Fields :
           /\ b + FieldOffset(A, f) <= a
           /\ a < b + FieldOffset(A, f) + PrimSize(FieldType(A, f))
    THEN CHOOSE f \in Fields :
           /\ b + FieldOffset(A, f) <= a
           /\ a < b + FieldOffset(A, f) + PrimSize(FieldType(A, f))
    ELSE "pad"

Extent(A, b) == b .. (b + StructSize(A) - 1)

Init ==
    /\ rustOrder \in Perms
    /\ pc = "build"
    /\ site = NoSite
    /\ wrap = NoInstance
    /\ ptr = NoPtr
    /\ result = NoPtr
    /\ ub = FALSE
    /\ mem = [a \in AddrSpace |-> "free"]
    /\ accessed = {}

\* the call site container_of!(_, A, f), inside an unsafe block or not, is built
Build(A, f, u) ==
    /\ pc = "build"
    /\ site' = [type |-> A, field |-> f, unsafe |-> u]
    /\ pc' = IF Compiles(site') THEN "run" ELSE "rejected"
    /\ UNCHANGED <<rustOrder, wrap, ptr, result, ub, mem, accessed>>

\* let wrap = Wrapper { foo: 1234, bar: 56, inner: 78 };
New(A, b) ==
    /\ pc = "run"
    /\ wrap = NoInstance
    /\ b \in Bases(A)
    /\ wrap' = [base |-> b, type |-> A, live |-> TRUE]
    /\ mem' = [a \in AddrSpace |->
                 IF a \in Extent(A, b) THEN ByteOf(A, b, a) ELSE mem[a]]
    /\ accessed' = accessed \cup
         {[op |-> "write", addr |-> a] :
            a \in {x \in Extent(A, b) : ByteOf(A, b, x) # "pad"}}
    /\ UNCHANGED <<rustOrder, pc, site, ptr, result, ub>>

\* wrap goes out of scope
Drop ==
    /\ pc = "run"
    /\ wrap.live
    /\ wrap' = [wrap EXCEPT !.live = FALSE]
    /\ mem' = [a \in AddrSpace |->
                 IF a \in Extent(wrap.type, wrap.base) THEN "free" ELSE mem[a]]
    /\ UNCHANGED <<rustOrder, pc, site, ptr, result, ub, accessed>>

\* &wrap.f as *const _   or   &mut wrap.f as *mut _
TakePtr(f, q) ==
    /\ pc = "run"
    /\ wrap.live
    /\ ptr' = [addr |-> wrap.base + FieldOffset(wrap.type, f),
               ty |-> FieldType(wrap.type, f),
               qual |-> q, prov |-> TRUE, of |-> f]
    /\ UNCHANGED <<rustOrder, pc, site, wrap, result, ub, mem, accessed>>

\* a pointer that was not derived from wrap:  a as *const u8
Forge(a) ==
    /\ pc = "run"
    /\ ptr' = [addr |-> a, ty |-> Prim("u8"), qual |-> "const", prov |-> FALSE, of |-> "-"]
    /\ UNCHANGED <<rustOrder, pc, site, wrap, result, ub, mem, accessed>>

\* unsafe { container_of!(ptr, site.type, site.field) }
Call ==
    /\ pc = "run"
    /\ ptr # NoPtr
    /\ \E o \in container_of(ptr, site.type, site.field) :
          /\ result' = o.ptr
          /\ ub' = (ub \/ o.ub)
    /\ accessed' = accessed \cup container_of_accesses(ptr, site.type, site.field)
    /\ pc' = "done"
    /\ UNCHANGED <<rustOrder, site, wrap, ptr, mem>>

Next ==
    \/ \E A \in StructTypes, f \in Fields \cup {MissingField}, u \in BOOLEAN :
          Build(A, f, u)
    \/ \E A \in StructTypes, b \in AddrSpace : New(A, b)
    \/ Drop
    \/ \E f \in Fields, q \in Quals : TakePtr(f, q)
    \/ \E a \in AddrSpace : Forge(a)
    \/ Call

Spec == Init /\ [][Next]_vars

----------------------------------------------------------------------------
(* Properties *)

Done == pc = "done"

Built == site # NoSite

Rejected == pc = "rejected"

\* the offset the call site's expansion subtracts
UsedOffset == offset_of(site.type, site.field)

StableLayout(A) == A.repr \in {"C", "packed"}

\* ptr is the address of wrap.f, wrap is live and (type of wrap, f) is the call site
Genuine ==
    /\ wrap.live
    /\ ptr.prov
    /\ wrap.type = site.type
    /\ ptr.of = site.field
    /\ ptr.addr = wrap.base + FieldOffset(wrap.type, ptr.of)

\* C1: round trip. For a live instance of a stable-layout aggregate A and any
\* field f of it, container_of!(address of the field, A, f) returns the address
\* of the instance, and the call is defined.
C1_RoundTrip ==
    (Done /\ Genuine /\ StableLayout(site.type))
        => (result.addr = wrap.base /\ ~ub /\ result.ty = site.type)

C1_Witness ==
    /\ Done /\ Genuine /\ StableLayout(site.type)
    /\ ptr.addr # wrap.base
    /\ result.addr = wrap.base

\* C2: mutability symmetry. The pointer returned has the qualification of the
\* pointer passed in: *const in, *const out; *mut in, *mut out.
C2_MutabilitySymmetry ==
    Done => (result.qual = ptr.qual /\ result.qual \in Quals)

C2_Witness ==
    /\ Done
    /\ ptr.qual = "mut"
    /\ result.qual = "mut"
    /\ result.ty = site.type

\* C3: a call site whose field identifier is not a field of the aggregate is
\* rejected by the build: no pointer is produced and nothing runs.
C3_UnknownFieldRejected ==
    (Built /\ site.field \notin Fields)
        => (Rejected /\ result = NoPtr /\ ptr = NoPtr /\ ~ub)

C3_Witness ==
    /\ Rejected
    /\ site.field = MissingField
    /\ site.unsafe

\* C4 as claimed: a call site on an aggregate with no declared stable layout is
\* rejected by the build and no pointer is ever computed for it.
C4_Original ==
    (Built /\ ~StableLayout(site.type)) => (Rejected /\ result = NoPtr)

\* C4 as amended: the build does not look at the layout attribute. A call site
\* on an aggregate with no declared stable layout is rejected exactly when the
\* field is unknown or the site is outside an unsafe block; otherwise it runs and,
\* given the address of the field of a live instance, returns the instance.
C4_Amended ==
    (Built /\ ~StableLayout(site.type))
        => /\ Rejected <=> ~(site.field \in Fields /\ site.unsafe)
           /\ (Done /\ Genuine) => (result.addr = wrap.base /\ ~ub)

C4_Witness ==
    /\ Done /\ Genuine
    /\ ~StableLayout(site.type)
    /\ UsedOffset # 0
    /\ result.addr = wrap.base

\* C5: a call site outside an unsafe block is rejected by the build, whatever
\* pointer would have been passed: nothing runs and no pointer is produced.
C5_UnsafeRequired ==
    (Built /\ ~site.unsafe) => (Rejected /\ result = NoPtr /\ ptr = NoPtr)

C5_Witness ==
    /\ Rejected
    /\ ~site.unsafe
    /\ site.field \in Fields
    /\ StableLayout(site.type)

\* C6: the offset accounts for padding. In #[repr(C)] Wrapper<T> (foo: i32,
\* bar: u8, inner: T) the offset of inner is 5 for T = u8 and 8 for T = i32, the
\* call subtracts exactly that, and the round trip recovers the instance.
C6_PaddingOffsets ==
    /\ offset_of(Wrapper("C", "u8"), "inner") = 5
    /\ offset_of(Wrapper("C", "i32"), "inner") = 8
    /\ (Done /\ Genuine /\ site.type.repr = "C" /\ site.field = "inner")
          => /\ result.addr = wrap.base
             /\ ptr.addr - result.addr = (IF site.type.param = "u8" THEN 5 ELSE 8)

C6_Witness ==
    /\ Done /\ Genuine
    /\ site.type = Wrapper("C", "i32")
    /\ site.field = "inner"
    /\ ptr.addr - result.addr = 8

\* C7: zero offset. The first-declared field of a stable-layout aggregate has
\* offset 0, and a call whose offset is 0 returns the address it was given.
C7_ZeroOffset ==
    /\ \A A \in StructTypes : StableLayout(A) => offset_of(A, FieldNames[1]) = 0
    /\ (Done /\ UsedOffset = 0) => (result.addr = ptr.addr /\ ~ub)

C7_Witness ==
    /\ Done /\ Genuine
    /\ StableLayout(site.type)
    /\ site.field = FieldNames[1]
    /\ result.addr = ptr.addr
    /\ result.ty # ptr.ty

\* C8 as claimed: for every pointer to a field of the live instance, with
\* address a, and every (type, field) with offset k, the address returned is
\* a - k.
C8_Original ==
    (Done /\ ptr.prov /\ wrap.live)
        => result.addr = (ptr.addr - UsedOffset) % AddrMod

\* C8 as amended: whenever the k bytes below a lie inside the live allocation
\* the pointer was derived from, the address returned is exactly a - k, whatever
\* the size of the pointee type and of the aggregate.
C8_Amended ==
    (Done /\ InBounds(ptr, UsedOffset)) => result.addr = ptr.addr - UsedOffset

C8_Witness ==
    /\ Done
    /\ InBounds(ptr, UsedOffset)
    /\ UsedOffset > 1
    /\ ptr.ty = Prim("i32")
    /\ ptr.of # site.field
    /\ result.addr = ptr.addr - UsedOffset
    /\ result.addr # wrap.base

\* C9 as claimed: computing the result is defined for any input pointer.
C9_Original ==
    Done => ~ub

\* C9 as amended: computing the result is defined exactly when the offset is 0
\* or the offset bytes below the pointer lie inside the live allocation it was
\* derived from; for any other pointer (dangling, into unrelated memory, too
\* close to the start of its allocation, below the offset) the computation is
\* itself undefined behaviour.
C9_Amended ==
    Done => (ub <=> ~(UsedOffset = 0 \/ InBounds(ptr, UsedOffset)))

C9_Witness ==
    /\ Done
    /\ ub
    /\ ptr.prov
    /\ ~wrap.live

\* C10: a call has no side effects. It leaves memory, the instance, the input
\* pointer and the record of memory accesses (no read, no write) as they were.
C10_NoSideEffects ==
    [][(pc = "run" /\ pc' = "done")
          => /\ mem' = mem
             /\ wrap' = wrap
             /\ ptr' = ptr
             /\ accessed' = accessed
             /\ rustOrder' = rustOrder]_vars

C10_Witness ==
    /\ Done
    /\ wrap.live
    /\ \E a \in AddrSpace : mem[a] = "inner"
    /\ accessed # {}
    /\ result # NoPtr

====
